---- MODULE Spec2Model ----
(***************************************************************************)
(* Model of src/src/index.ts: the Worker entry point `fetch` and the       *)
(* per-request BrowserRequestHandler (session resolution, authentication   *)
(* of the CDP discovery endpoint, container lookup, buffered proxying with *)
(* host rewriting, raw WebSocket forwarding).                              *)
(*                                                                         *)
(* Strings the code only compares are TLA+ strings.  Strings the code      *)
(* searches or rewrites (response bodies, header values, URLs) are         *)
(* sequences of tokens; the internal address 127.0.0.1:3000 is the         *)
(* two-token sequence LOOPBACK, so partial and repeated matches exist.     *)
(***************************************************************************)
EXTENDS Integers, Sequences, FiniteSets, TLC

VARIABLES
  env,        \* Env bindings of the deployment: DEV, API_KEY
  req,        \* the request being handled (this.request / this.url)
  pc,         \* position of the handler
  sessionId,  \* the handler's sessionId: extracted, or minted by randomUUID
  provCalls,  \* names passed to BROWSER_CONTAINER.idFromName/get by this handler
  fwdCalls,   \* container.containerFetch / container.fetch calls of this handler
  backend,    \* what the container call produced (a response, or a throw)
  result,     \* what handle() produced: a Response, or a rejected promise
  issued      \* identities minted by earlier discovery requests and forwarded

vars == <<env, req, pc, sessionId, provCalls, fwdCalls, backend, result, issued>>

\* ------------------------------------------------------------------ bounds

\* longest backend body (in tokens) the exhaustive body slices enumerate
MaxBodyLen == 4

\* ------------------------------------------------------------------ values

\* header or query parameter not present (Headers.get / searchParams.get -> null),
\* binding not set (undefined)
NULL == "<null>"

\* JavaScript truthiness of a string-or-null value
Truthy(v) == v # NULL /\ v # ""

\* the container's internal address, the text of /127\.0\.0\.1:3000/
LOOPBACK == <<"127.0.0.1", ":3000">>

Texts(alphabet, n) == UNION {[1..k -> alphabet] : k \in 0..n}

StartsWith(text, pat) ==
  Len(text) >= Len(pat) /\ SubSeq(text, 1, Len(pat)) = pat

\* String.prototype.includes on token text
Includes(text, pat) ==
  \E i \in 1..(Len(text) - Len(pat) + 1) : SubSeq(text, i, i + Len(pat) - 1) = pat

\* ------------------------------------------------------------------ inputs

Uuids == {"u1", "u2"}

Envs == [DEV : {NULL, "true", "false"}, API_KEY : {NULL, "", "secret"}]

Hosts == {<<"proxy.example">>, <<"localhost", ":8787">>}

Requests ==
  [method : {"GET", "POST"},
   host : Hosts,
   pathname : {"/json/version", "/json/version/", "/json/list"},
   xSessionId : {NULL, "", "u1", "u2"},
   sessionIdParam : {NULL, "", "u1"},
   apiKeyParam : {NULL, "secret", "wrong"},
   upgrade : {NULL, "websocket", "WebSocket"}]

\* the requests for which every backend body up to MaxBodyLen is explored
Canonical(r) ==
  /\ r.method = "GET"
  /\ r.apiKeyParam = "secret"
  /\ r.sessionIdParam = NULL
  /\ r.upgrade = NULL
  /\ r.xSessionId \in {NULL, "u1"}

\* ------------------------------------------------------------------ BrowserRequestHandler

\* the query parameter takes precedence over the header
extractSessionIdQueryFirst(r) ==
  IF Truthy(r.sessionIdParam) THEN r.sessionIdParam ELSE r.xSessionId

extractSessionId(r) ==
  IF Truthy(r.xSessionId) THEN r.xSessionId ELSE r.sessionIdParam

\* a prefix test in place of the two exact paths
isJsonVersionRequestPrefix(r) ==
  r.pathname \in {"/json/version", "/json/version/", "/json/list"}

isJsonVersionRequest(r) ==
  r.pathname = "/json/version" \/ r.pathname = "/json/version/"

\* the key is compared only when the request supplies one
checkAuthenticationLax(e, r) ==
  IF e.DEV = "true"
  THEN [isAuthenticated |-> TRUE, message |-> ""]
  ELSE IF ~Truthy(e.API_KEY)
  THEN [isAuthenticated |-> FALSE,
        message |-> "API_KEY not configured. See README.md for instructions."]
  ELSE IF ~Truthy(r.apiKeyParam) \/ r.apiKeyParam = e.API_KEY
  THEN [isAuthenticated |-> TRUE, message |-> ""]
  ELSE [isAuthenticated |-> FALSE,
        message |-> "Invalid or missing API key. Use ?apiKey=YOUR_KEY"]

\* the development bypass is taken only when no key is configured
checkAuthenticationNoBypass(e, r) ==
  IF e.DEV = "true" /\ ~Truthy(e.API_KEY)
  THEN [isAuthenticated |-> TRUE, message |-> ""]
  ELSE IF ~Truthy(e.API_KEY)
  THEN [isAuthenticated |-> FALSE,
        message |-> "API_KEY not configured. See README.md for instructions."]
  ELSE IF Truthy(r.apiKeyParam) /\ r.apiKeyParam = e.API_KEY
  THEN [isAuthenticated |-> TRUE, message |-> ""]
  ELSE [isAuthenticated |-> FALSE,
        message |-> "Invalid or missing API key. Use ?apiKey=YOUR_KEY"]

checkAuthentication(e, r) ==
  IF e.DEV = "true"
  THEN [isAuthenticated |-> TRUE, message |-> ""]
  ELSE IF ~Truthy(e.API_KEY)
  THEN [isAuthenticated |-> FALSE,
        message |-> "API_KEY not configured. See README.md for instructions."]
  ELSE IF Truthy(r.apiKeyParam) /\ r.apiKeyParam = e.API_KEY
  THEN [isAuthenticated |-> TRUE, message |-> ""]
  ELSE [isAuthenticated |-> FALSE,
        message |-> "Invalid or missing API key. Use ?apiKey=YOUR_KEY"]

\* the regular expression without its g flag: the first match only
rewriteHostOnce(text, host) ==
  IF ~Includes(text, LOOPBACK) THEN text
  ELSE LET i == CHOOSE k \in 1..(Len(text) - 1) :
                  /\ SubSeq(text, k, k + 1) = LOOPBACK
                  /\ \A j \in 1..(k - 1) : SubSeq(text, j, j + 1) # LOOPBACK
       IN SubSeq(text, 1, i - 1) \o host \o SubSeq(text, i + 2, Len(text))

RECURSIVE rewriteHost(_, _)
rewriteHost(text, host) ==
  IF text = <<>> THEN <<>>
  ELSE IF StartsWith(text, LOOPBACK)
  THEN host \o rewriteHost(SubSeq(text, Len(LOOPBACK) + 1, Len(text)), host)
  ELSE <<Head(text)>> \o rewriteHost(Tail(text), host)

\* ------------------------------------------------------------------ Response, Headers, URL

\* Headers: a function from lower-cased header names to token text
headersGet(h, name) == IF name \in DOMAIN h THEN h[name] ELSE <<>>

headersHas(h, name) == name \in DOMAIN h

headersDelete(h, name) == [n \in DOMAIN h \ {name} |-> h[n]]

\* new Response(string, {status, headers}): a string body without a
\* content-type header gets text/plain;charset=UTF-8
stringResponse(status, headers, text) ==
  [kind |-> "response",
   status |-> status,
   headers |-> IF headersHas(headers, "content-type") THEN headers
               ELSE headers @@ ("content-type" :> <<"text/plain;charset=UTF-8">>),
   body |-> [text |-> text]]

\* Response.json(value, {status})
jsonResponse(status, value) ==
  [kind |-> "response",
   status |-> status,
   headers |-> ("content-type" :> <<"application/json">>),
   body |-> [json |-> value]]

\* an awaited call that threw, with nothing to catch it: handle() rejects
rejected(error) == [kind |-> "rejected", error |-> error]

NoResult == [kind |-> "none"]

NoBackend == [kind |-> "none"]

\* URLSearchParams.append in place of set
searchParamsAppend(q, k, v) == Append(q, <<k, v>>)

\* URLSearchParams.set: the first pair named k takes the value, later pairs
\* named k are removed; without such a pair one is appended
searchParamsSet(q, k, v) ==
  IF \A i \in 1..Len(q) : q[i][1] # k
  THEN Append(q, <<k, v>>)
  ELSE LET first == CHOOSE i \in 1..Len(q) :
                      q[i][1] = k /\ \A j \in 1..(i - 1) : q[j][1] # k
           keep(p) == p[1] # k
       IN SubSeq(q, 1, first - 1) \o <<<<k, v>>>>
            \o SelectSeq(SubSeq(q, first + 1, Len(q)), keep)

RECURSIVE searchToString(_)
searchToString(q) ==
  IF q = <<>> THEN <<>>
  ELSE <<q[1][1], "=", q[1][2]>>
         \o (IF Len(q) > 1 THEN <<"&">> ELSE <<>>)
         \o searchToString(Tail(q))

\* URL.prototype.toString
urlToString(u) ==
  <<u.protocol>> \o u.host \o u.pathname
    \o (IF u.query = <<>> THEN <<>> ELSE <<"?">> \o searchToString(u.query))

\* `http://127.0.0.1:3000${this.url.pathname}${this.url.search}`
upstream(r) ==
  [host |-> LOOPBACK,
   pathname |-> r.pathname,
   sessionIdParam |-> r.sessionIdParam,
   apiKeyParam |-> r.apiKeyParam]

\* contentType?.includes("application/json")
isJsonContentType(h) ==
  headersHas(h, "content-type")
    /\ Includes(headersGet(h, "content-type"), <<"application/json">>)

NoInstancePhrase == <<"no Container instance available">>

MaxConcurrentPhrase == <<"max concurrent", "instance count">>

\* only the first of the two phrases is looked for
isCapacityErrorFirstPhrase(text) == Includes(text, NoInstancePhrase)

isCapacityError(text) ==
  Includes(text, NoInstancePhrase) \/ Includes(text, MaxConcurrentPhrase)

\* lines 225-229: the truthy webSocketDebuggerUrl, parsed, given the session
\* id, serialised and host-rewritten
rewriteDebuggerUrl(r, sid, ws) ==
  LET wsUrl == [ws.url EXCEPT !.query = searchParamsSet(@, "sessionId", sid)]
  IN [kind |-> "text", text |-> rewriteHost(urlToString(wsUrl), r.host)]

\* handleJsonVersionRequest, the try block after containerFetch returned b
\* (or threw)
discoveryResponse(r, sid, b) ==
  IF b.kind = "throw"
  THEN stringResponse(500, <<>>,
         <<"Failed to initialize browser container: ", b.error>>)
  ELSE IF ~isJsonContentType(b.headers)
  THEN IF isCapacityError(b.body.text)
       THEN [kind |-> "response",
             status |-> 429,
             headers |-> ("content-type" :> <<"application/json">>),
             body |-> [json |->
               [error |-> "Too many concurrent browser sessions",
                message |-> "Maximum concurrent container limit reached. Please try again later.",
                details |-> b.body.text]]]
       ELSE stringResponse(500, <<>>,
              <<"Container initialization failed: ">> \o b.body.text)
  ELSE IF ~b.body.json.ok
  THEN stringResponse(500, <<>>,
         <<"Failed to initialize browser container: ", "SyntaxError">>)
  ELSE LET data == b.body.json.data
           ws == data.webSocketDebuggerUrl
       IN IF ws.kind \in {"absent", "empty"}
          THEN jsonResponse(200, data)
          ELSE IF ws.kind = "invalid"
          THEN stringResponse(500, <<>>,
                 <<"Failed to initialize browser container: ", "TypeError">>)
          ELSE jsonResponse(200,
                 [data EXCEPT !.webSocketDebuggerUrl = rewriteDebuggerUrl(r, sid, ws)])

\* containerFetchWithRewrite after containerFetch returned b (or threw)
proxyResponse(r, b) ==
  IF b.kind = "throw"
  THEN rejected(b.error)
  ELSE stringResponse(b.status,
         headersDelete(b.headers, "content-length"),
         rewriteHost(b.body.text, r.host))

\* handleWebsocketUpgrade: new Request(this.request.url, {method, headers +
\* X-Session-ID, body})
upgradeRequest(r, sid) == [r EXCEPT !.xSessionId = sid]

\* handleWebsocketUpgrade after container.fetch returned b (or threw): the
\* container's response is returned as it is
upgradeResponse(b) ==
  IF b.kind = "throw"
  THEN rejected(b.error)
  ELSE [kind |-> "response", status |-> b.status, headers |-> b.headers,
        body |-> [raw |-> b.body]]

\* any Upgrade header counts as a WebSocket upgrade
isWebsocketUpgradeAny(r) == r.upgrade # NULL

\* line 93: upgradeHeader === "websocket"
isWebsocketUpgrade(r) == r.upgrade = "websocket"

\* authentication is asked of every request on the discovery path
routeAuthOnPath(e, r) ==
  LET sid == extractSessionId(r)
  IN IF isJsonVersionRequest(r) /\ ~checkAuthentication(e, r).isAuthenticated
     THEN "unauthenticated"
     ELSE IF ~Truthy(sid) /\ isJsonVersionRequest(r)
     THEN "discovery"
     ELSE IF ~Truthy(sid)
     THEN "missing"
     ELSE "session"

\* the discovery handler is entered without asking checkAuthentication
routeWithoutAuth(e, r) ==
  LET sid == extractSessionId(r)
  IN IF ~Truthy(sid) /\ isJsonVersionRequest(r)
     THEN "discovery"
     ELSE IF ~Truthy(sid)
     THEN "missing"
     ELSE "session"

\* handle(), lines 65-90: which branch a request takes
route(e, r) ==
  LET sid == extractSessionId(r)
  IN IF ~Truthy(sid) /\ isJsonVersionRequest(r)
     THEN IF ~checkAuthentication(e, r).isAuthenticated
          THEN "unauthenticated"
          ELSE "discovery"
     ELSE IF ~Truthy(sid)
     THEN "missing"
     ELSE "session"

\* lines 72-80
unauthenticatedResponse(e, r) ==
  jsonResponse(401,
    [error |-> "Authentication required",
     message |-> checkAuthentication(e, r).message,
     instructions |-> "Add ?apiKey=YOUR_API_KEY to the URL or use Authorization header"])

\* line 89
missingSessionResponse == stringResponse(400, <<>>, <<"Session ID required">>)

\* ------------------------------------------------------------------ the container (external)

Throws == [kind |-> "throw", error |-> "Error: container unavailable"]

backendResponse(status, headers, text, json) ==
  [kind |-> "response", status |-> status, headers |-> headers,
   body |-> [text |-> text, json |-> json]]

\* response.json() of a body that is no JSON document throws
NotJson == [ok |-> FALSE]

HeaderSets ==
  { <<>>,
    ("content-length" :> <<"12">>),
    ("content-type" :> <<"text/html">>) @@ ("content-length" :> <<"12">>),
    ("content-type" :> <<"application/json">>) @@ ("x-backend" :> <<"b1">>) }

ProxyAlphabet == {"127.0.0.1", ":3000", "x"}

\* what containerFetch may produce for a proxied request
ProxyOutcomes(r) ==
  {Throws}
    \cup {backendResponse(st, h, <<"x">> \o LOOPBACK, NotJson) :
            st \in {200, 401}, h \in HeaderSets}
    \cup (IF Canonical(r)
          THEN {backendResponse(200, ("content-length" :> <<"12">>), t, NotJson) :
                  t \in Texts(ProxyAlphabet, MaxBodyLen)}
          ELSE {})

\* what container.fetch may produce for an upgrade request
UpgradeOutcomes ==
  { Throws,
    backendResponse(101, ("upgrade" :> <<"websocket">>), <<>>, NotJson),
    backendResponse(426, ("content-length" :> <<"12">>), LOOPBACK, NotJson) }

DebuggerUrls ==
  [protocol : {"ws://"},
   host : {LOOPBACK, <<"localhost", ":3000">>},
   pathname : {<<"/devtools/browser/b1">>, <<"/devtools/">> \o LOOPBACK},
   query : { <<>>,
             << <<"sessionId", "old">> >>,
             << <<"t", "1">>, <<"sessionId", "old">>, <<"sessionId", "u2">> >> }]

DebuggerUrlValues ==
  {[kind |-> "absent"], [kind |-> "empty"], [kind |-> "invalid"]}
    \cup {[kind |-> "url", url |-> u] : u \in DebuggerUrls}

JsonDocs ==
  {[ok |-> TRUE, data |-> [Browser |-> "Chrome/120", webSocketDebuggerUrl |-> w]] :
     w \in DebuggerUrlValues}

PlainUrl ==
  [protocol |-> "ws://", host |-> LOOPBACK,
   pathname |-> <<"/devtools/browser/b1">>, query |-> <<>>]

PlainDoc ==
  [ok |-> TRUE,
   data |-> [Browser |-> "Chrome/120",
             webSocketDebuggerUrl |-> [kind |-> "url", url |-> PlainUrl]]]

DiscoveryAlphabet ==
  {"no Container instance available", "max concurrent", "instance count"}

\* what containerFetch may produce for a discovery request
DiscoveryOutcomes(r) ==
  { Throws,
    backendResponse(200, ("content-type" :> <<"application/json">>),
                    <<"{json}">>, PlainDoc),
    backendResponse(500, ("content-type" :> <<"application/json", "; charset=utf-8">>),
                    <<"{json}">>, PlainDoc),
    backendResponse(200, ("content-type" :> <<"application/json">>),
                    <<"x">>, NotJson),
    backendResponse(500, <<>>, MaxConcurrentPhrase, NotJson),
    backendResponse(500, ("content-type" :> <<"text/plain">>),
                    NoInstancePhrase, NotJson),
    backendResponse(502, <<>>, <<"instance count", "max concurrent">>, NotJson) }
    \cup (IF Canonical(r)
          THEN {backendResponse(200, ("content-type" :> <<"application/json">>),
                                <<"{json}">>, j) : j \in JsonDocs}
               \cup {backendResponse(500, ("content-type" :> <<"text/plain">>),
                                     t, NotJson) :
                       t \in Texts(DiscoveryAlphabet, MaxBodyLen)}
          ELSE {})

\* ------------------------------------------------------------------ actions

\* no handler exists between two requests
NoRequest ==
  [method |-> NULL, host |-> <<>>, pathname |-> NULL, xSessionId |-> NULL,
   sessionIdParam |-> NULL, apiKeyParam |-> NULL, upgrade |-> NULL]

Init ==
  /\ env \in Envs
  /\ req = NoRequest
  /\ pc = "idle"
  /\ sessionId = NULL
  /\ provCalls = <<>>
  /\ fwdCalls = <<>>
  /\ backend = NoBackend
  /\ result = NoResult
  /\ issued = {}

\* fetch(request, env), lines 34-37: a handler is constructed for the request
Fetch ==
  /\ pc = "idle"
  /\ req' \in Requests
  /\ pc' = "handle"
  /\ UNCHANGED <<env, sessionId, provCalls, fwdCalls, backend, result, issued>>

\* the promise of handle() has settled and the handler is dropped
Settle ==
  /\ pc = "done"
  /\ req' = NoRequest
  /\ pc' = "idle"
  /\ sessionId' = NULL
  /\ provCalls' = <<>>
  /\ fwdCalls' = <<>>
  /\ backend' = NoBackend
  /\ result' = NoResult
  /\ UNCHANGED <<env, issued>>

Return(response) ==
  /\ result' = response
  /\ pc' = "done"

\* lines 65-83
RejectUnauthenticated ==
  /\ pc = "handle"
  /\ route(env, req) = "unauthenticated"
  /\ Return(unauthenticatedResponse(env, req))
  /\ UNCHANGED <<env, req, sessionId, provCalls, fwdCalls, backend, issued>>

\* lines 88-90
RejectMissingSession ==
  /\ pc = "handle"
  /\ route(env, req) = "missing"
  /\ Return(missingSessionResponse)
  /\ UNCHANGED <<env, req, sessionId, provCalls, fwdCalls, backend, issued>>

\* line 85
EnterDiscovery ==
  /\ pc = "handle"
  /\ route(env, req) = "discovery"
  /\ pc' = "mint"
  /\ UNCHANGED <<env, req, sessionId, provCalls, fwdCalls, backend, result, issued>>

\* lines 181-186: randomUUID, then idFromName/get outside the try block
MintSession ==
  /\ pc = "mint"
  /\ \E u \in Uuids :
       /\ sessionId' = u
       /\ provCalls' = Append(provCalls, u)
  /\ pc' = "discoveryFetch"
  /\ UNCHANGED <<env, req, fwdCalls, backend, result, issued>>

MintSessionThrows ==
  /\ pc = "mint"
  /\ \E u \in Uuids :
       /\ sessionId' = u
       /\ provCalls' = Append(provCalls, u)
  /\ Return(rejected(Throws.error))
  /\ UNCHANGED <<env, req, fwdCalls, backend, issued>>

\* lines 188-191: container.containerFetch(upstream, this.request)
DiscoveryFetch ==
  /\ pc = "discoveryFetch"
  /\ fwdCalls' = Append(fwdCalls,
       [op |-> "containerFetch", key |-> provCalls[Len(provCalls)],
        url |-> upstream(req), request |-> req])
  /\ issued' = issued \cup {sessionId}
  /\ pc' = "discoveryAwait"
  /\ UNCHANGED <<env, req, sessionId, provCalls, backend, result>>

\* lines 191-236
DiscoveryReply ==
  /\ pc = "discoveryAwait"
  /\ \E b \in DiscoveryOutcomes(req) :
       /\ backend' = b
       /\ Return(discoveryResponse(req, sessionId, b))
  /\ UNCHANGED <<env, req, sessionId, provCalls, fwdCalls, issued>>

\* line 92, getContainer
GetContainer ==
  /\ pc = "handle"
  /\ route(env, req) = "session"
  /\ sessionId' = extractSessionId(req)
  /\ provCalls' = Append(provCalls, extractSessionId(req))
  /\ pc' = "dispatch"
  /\ UNCHANGED <<env, req, fwdCalls, backend, result, issued>>

GetContainerThrows ==
  /\ pc = "handle"
  /\ route(env, req) = "session"
  /\ sessionId' = extractSessionId(req)
  /\ provCalls' = Append(provCalls, extractSessionId(req))
  /\ Return(rejected(Throws.error))
  /\ UNCHANGED <<env, req, fwdCalls, backend, issued>>

\* lines 93-94, 251-259: container.fetch(newRequest)
UpgradeFetch ==
  /\ pc = "dispatch"
  /\ isWebsocketUpgrade(req)
  /\ fwdCalls' = Append(fwdCalls,
       [op |-> "fetch", key |-> provCalls[Len(provCalls)],
        url |-> [host |-> req.host, pathname |-> req.pathname,
                 sessionIdParam |-> req.sessionIdParam,
                 apiKeyParam |-> req.apiKeyParam],
        request |-> upgradeRequest(req, sessionId)])
  /\ pc' = "upgradeAwait"
  /\ UNCHANGED <<env, req, sessionId, provCalls, backend, result, issued>>

\* line 259
UpgradeReply ==
  /\ pc = "upgradeAwait"
  /\ \E b \in UpgradeOutcomes :
       /\ backend' = b
       /\ Return(upgradeResponse(b))
  /\ UNCHANGED <<env, req, sessionId, provCalls, fwdCalls, issued>>

\* lines 97, 162-163: container.containerFetch(upstream, this.request)
ProxyFetch ==
  /\ pc = "dispatch"
  /\ ~isWebsocketUpgrade(req)
  /\ fwdCalls' = Append(fwdCalls,
       [op |-> "containerFetch", key |-> provCalls[Len(provCalls)],
        url |-> upstream(req), request |-> req])
  /\ pc' = "proxyAwait"
  /\ UNCHANGED <<env, req, sessionId, provCalls, backend, result, issued>>

\* lines 164-170
ProxyReply ==
  /\ pc = "proxyAwait"
  /\ \E b \in ProxyOutcomes(req) :
       /\ backend' = b
       /\ Return(proxyResponse(req, b))
  /\ UNCHANGED <<env, req, sessionId, provCalls, fwdCalls, issued>>

Next ==
  \/ Fetch
  \/ Settle
  \/ RejectUnauthenticated
  \/ RejectMissingSession
  \/ EnterDiscovery
  \/ MintSession
  \/ MintSessionThrows
  \/ DiscoveryFetch
  \/ DiscoveryReply
  \/ GetContainer
  \/ GetContainerThrows
  \/ UpgradeFetch
  \/ UpgradeReply
  \/ ProxyFetch
  \/ ProxyReply

Spec == Init /\ [][Next]_vars

\* ------------------------------------------------------------------ reading requests and responses

\* the request carries a non-empty X-Session-ID header or sessionId parameter
PresentsIdentity(r) ==
  (r.xSessionId # NULL /\ r.xSessionId # "")
    \/ (r.sessionIdParam # NULL /\ r.sessionIdParam # "")

OnDiscoveryPath(r) == r.pathname \in {"/json/version", "/json/version/"}

IsResponse(status) == result.kind = "response" /\ result.status = status

HasText == result.kind = "response" /\ "text" \in DOMAIN result.body

HasJson == result.kind = "response" /\ "json" \in DOMAIN result.body

BackendAnswered == backend.kind = "response"

Least(S) == CHOOSE i \in S : \A j \in S : i <= j

\* the host of a serialised URL: what follows the protocol, up to the path or query
UrlHostOf(text) ==
  LET stops == {i \in 2..Len(text) :
                  text[i] \in {"?", "/devtools/browser/b1", "/devtools/"}}
      end == IF stops = {} THEN Len(text) + 1 ELSE Least(stops)
  IN SubSeq(text, 2, end - 1)

\* URLSearchParams.get on a serialised URL: the value of the first pair named k
UrlParamOf(text, k) ==
  LET marks == {i \in 1..Len(text) : text[i] = "?"}
      named == IF marks = {} THEN {}
               ELSE {i \in (Least(marks) + 1)..(Len(text) - 2) :
                       /\ text[i] = k
                       /\ text[i + 1] = "="
                       /\ text[i - 1] \in {"?", "&"}}
  IN IF named = {} THEN NULL ELSE text[Least(named) + 2]

\* ------------------------------------------------------------------ C1

\* C1: a request with no session identity on a path other than /json/version
\* and /json/version/ is answered 400 "Session ID required", whatever its
\* method, Upgrade header, apiKey and the deployment's DEV and API_KEY, and no
\* container is looked up or called for it.
C1_MissingSessionIs400 ==
  (pc # "idle" /\ ~PresentsIdentity(req) /\ ~OnDiscoveryPath(req)) =>
    /\ pc \in {"handle", "done"}
    /\ provCalls = <<>>
    /\ fwdCalls = <<>>
    /\ backend = NoBackend
    /\ pc = "done" =>
         /\ IsResponse(400)
         /\ HasText
         /\ result.body.text = <<"Session ID required">>

C1_Witness ==
  /\ pc = "done"
  /\ ~PresentsIdentity(req)
  /\ req.pathname = "/json/list"
  /\ req.xSessionId = ""
  /\ req.method = "POST"
  /\ req.upgrade = "websocket"
  /\ req.apiKeyParam = "secret"
  /\ env.DEV = "true"
  /\ env.API_KEY = "secret"
  /\ IsResponse(400)

\* ------------------------------------------------------------------ C2

KeyMatches == env.API_KEY \notin {NULL, ""} /\ req.apiKeyParam = env.API_KEY

\* C2: with development mode off, a discovery request without a session
\* identity passes authentication exactly when an API key is configured and
\* the apiKey parameter equals it; every other such request is answered 401
\* with a JSON body {error: "Authentication required", message, instructions}
\* and reaches no container.
C2_ProductionAuth ==
  (pc = "done" /\ env.DEV # "true" /\ ~PresentsIdentity(req) /\ OnDiscoveryPath(req)) =>
    /\ KeyMatches =>
         /\ sessionId \in Uuids
         /\ provCalls = <<sessionId>>
         /\ ~IsResponse(401)
    /\ ~KeyMatches =>
         /\ IsResponse(401)
         /\ HasJson
         /\ DOMAIN result.body.json = {"error", "message", "instructions"}
         /\ result.body.json.error = "Authentication required"
         /\ result.body.json.message # ""
         /\ result.body.json.instructions # ""
         /\ sessionId = NULL
         /\ provCalls = <<>>
         /\ fwdCalls = <<>>

\* Scenario C: key "secret" configured, ?apiKey=wrong
C2_Witness ==
  /\ pc = "done"
  /\ env.DEV = "false"
  /\ env.API_KEY = "secret"
  /\ req.apiKeyParam = "wrong"
  /\ ~PresentsIdentity(req)
  /\ req.pathname = "/json/version"
  /\ IsResponse(401)

\* ------------------------------------------------------------------ C3

\* C3: with development mode on, a discovery request without a session identity
\* is always authenticated: it is never answered 401, it goes on to mint a
\* session, and neither the branch taken nor the response built from the
\* container's answer depends on the apiKey parameter or the configured key.
C3_DevBypass ==
  (pc # "idle" /\ env.DEV = "true" /\ ~PresentsIdentity(req) /\ OnDiscoveryPath(req)) =>
    /\ checkAuthentication(env, req).isAuthenticated
    /\ ~IsResponse(401)
    /\ pc = "done" => sessionId \in Uuids /\ provCalls = <<sessionId>>
    /\ \A k \in {NULL, "secret", "wrong"}, a \in {NULL, "", "secret"} :
         LET e2 == [env EXCEPT !.API_KEY = a]
             r2 == [req EXCEPT !.apiKeyParam = k]
         IN /\ route(e2, r2) = "discovery"
            /\ (pc = "done" /\ backend # NoBackend) =>
                 discoveryResponse(r2, sessionId, backend) = result

C3_Witness ==
  /\ pc = "done"
  /\ env.DEV = "true"
  /\ env.API_KEY = "secret"
  /\ req.apiKeyParam = "wrong"
  /\ ~PresentsIdentity(req)
  /\ OnDiscoveryPath(req)
  /\ IsResponse(200)

\* ------------------------------------------------------------------ C4

\* the container's discovery payload carried a parsable webSocketDebuggerUrl
CarriedDebuggerUrl ==
  /\ BackendAnswered
  /\ backend.body.json.ok
  /\ backend.body.json.data.webSocketDebuggerUrl.kind = "url"

DiscoverySucceeded ==
  /\ pc = "done"
  /\ ~PresentsIdentity(req)
  /\ OnDiscoveryPath(req)
  /\ IsResponse(200)
  /\ CarriedDebuggerUrl

ReturnedDebuggerUrl == result.body.json.webSocketDebuggerUrl.text

RoundTrips ==
  /\ HasJson
  /\ result.body.json.webSocketDebuggerUrl.kind = "text"
  /\ UrlHostOf(ReturnedDebuggerUrl) = req.host
  /\ UrlParamOf(ReturnedDebuggerUrl, "sessionId") = sessionId
  /\ provCalls = <<sessionId>>

\* C4 as stated: after a 200 discovery response whose payload carried a
\* webSocketDebuggerUrl, the returned URL has the request's host and the
\* minted session id as its sessionId parameter, whatever host the container
\* put in its URL.
C4_RoundTripAnyHost == DiscoverySucceeded => RoundTrips

\* C4 amended: the same, for payloads whose webSocketDebuggerUrl has the host
\* 127.0.0.1:3000.
C4_RoundTripLoopbackHost ==
  (DiscoverySucceeded
     /\ backend.body.json.data.webSocketDebuggerUrl.url.host = <<"127.0.0.1", ":3000">>) =>
    RoundTrips

C4_Witness ==
  /\ DiscoverySucceeded
  /\ backend.body.json.data.webSocketDebuggerUrl.url.host = <<"127.0.0.1", ":3000">>
  /\ Len(backend.body.json.data.webSocketDebuggerUrl.url.query) = 3
  /\ Len(backend.body.json.data.webSocketDebuggerUrl.url.pathname) = 3
  /\ req.host = <<"localhost", ":8787">>
  /\ sessionId = "u1"

\* ------------------------------------------------------------------ C5

ResolvedIdentity(r) ==
  IF r.xSessionId # NULL /\ r.xSessionId # "" THEN r.xSessionId ELSE r.sessionIdParam

\* C5: a request that presents a session identity, on any path, is never put
\* to authentication: for every apiKey, DEV and API_KEY it takes the session
\* branch keyed by the same identity, the container is looked up under that
\* identity, the only 401 it can get is the container's own, and the response
\* built from the container's answer is the same for every apiKey.
C5_SessionBypassesAuth ==
  (pc # "idle" /\ PresentsIdentity(req)) =>
    /\ \A e2 \in Envs, k \in {NULL, "secret", "wrong"} :
         LET r2 == [req EXCEPT !.apiKeyParam = k]
         IN /\ route(e2, r2) = "session"
            /\ extractSessionId(r2) = ResolvedIdentity(req)
            /\ (pc = "done" /\ BackendAnswered) =>
                 result = IF req.upgrade = "websocket"
                          THEN upgradeResponse(backend)
                          ELSE proxyResponse(r2, backend)
    /\ pc \notin {"mint", "discoveryFetch", "discoveryAwait"}
    /\ pc # "handle" => provCalls = <<ResolvedIdentity(req)>>
    /\ IsResponse(401) => BackendAnswered /\ backend.status = 401

C5_Witness ==
  /\ pc = "done"
  /\ req.pathname = "/json/version"
  /\ req.xSessionId = "u2"
  /\ req.apiKeyParam = "wrong"
  /\ env.DEV = NULL
  /\ env.API_KEY = "secret"
  /\ IsResponse(200)

\* ------------------------------------------------------------------ C6

\* every container lookup and forward of this handler used the key s, and an
\* upgrade was forwarded raw with X-Session-ID set to s
KeyedOnlyBy(s) ==
  /\ pc # "handle" => provCalls = <<s>>
  /\ \A i \in 1..Len(fwdCalls) :
       /\ fwdCalls[i].key = s
       /\ req.upgrade = "websocket" =>
            /\ fwdCalls[i].op = "fetch"
            /\ fwdCalls[i].request.xSessionId = s
            /\ fwdCalls[i].request.upgrade = "websocket"
  /\ (pc = "done" /\ BackendAnswered) => Len(fwdCalls) = 1

\* C6 as stated: once a discovery request minted s and was forwarded under
\* key s, every later request that presents s in X-Session-ID or in sessionId
\* is forwarded under key s and no other.
C6_AffinityAnyPresentation ==
  \A s \in issued :
    (pc # "idle" /\ (req.xSessionId = s \/ req.sessionIdParam = s)) => KeyedOnlyBy(s)

\* C6 amended: the same for every later request whose X-Session-ID is s, or
\* whose X-Session-ID is absent or empty and whose sessionId parameter is s
\* (the header takes precedence over the parameter).
C6_AffinityResolved ==
  \A s \in issued :
    (/\ pc # "idle"
     /\ \/ req.xSessionId = s
        \/ (req.xSessionId \in {NULL, ""} /\ req.sessionIdParam = s)) => KeyedOnlyBy(s)

\* Scenario B
C6_Witness ==
  /\ pc = "done"
  /\ "u2" \in issued
  /\ req.xSessionId = "u2"
  /\ req.sessionIdParam = "u1"
  /\ req.upgrade = "websocket"
  /\ IsResponse(101)

\* ------------------------------------------------------------------ C7

DiscoveryAnswered ==
  /\ pc = "done"
  /\ ~PresentsIdentity(req)
  /\ OnDiscoveryPath(req)
  /\ BackendAnswered

BackendSaysJson ==
  /\ "content-type" \in DOMAIN backend.headers
  /\ \E i \in 1..Len(backend.headers["content-type"]) :
       backend.headers["content-type"][i] = "application/json"

BackendBodyHasPhrase ==
  LET t == backend.body.text
  IN \E i \in 1..Len(t) :
       \/ t[i] = "no Container instance available"
       \/ (i < Len(t) /\ t[i] = "max concurrent" /\ t[i + 1] = "instance count")

\* C7: when the container's discovery answer is not JSON by its content type,
\* a body containing "max concurrent instance count" or "no Container
\* instance available" gives 429 with JSON {error: "Too many concurrent
\* browser sessions", message, details: the raw body}; a body with neither
\* phrase gives 500 with the raw body in its text.
C7_CapacityClassification ==
  (DiscoveryAnswered /\ ~BackendSaysJson) =>
    /\ BackendBodyHasPhrase =>
         /\ IsResponse(429)
         /\ HasJson
         /\ DOMAIN result.body.json = {"error", "message", "details"}
         /\ result.body.json.error = "Too many concurrent browser sessions"
         /\ result.body.json.details = backend.body.text
         /\ result.headers["content-type"] = <<"application/json">>
    /\ ~BackendBodyHasPhrase =>
         /\ IsResponse(500)
         /\ HasText
         /\ result.body.text = <<"Container initialization failed: ">> \o backend.body.text

C7_Witness ==
  /\ DiscoveryAnswered
  /\ "content-type" \notin DOMAIN backend.headers
  /\ backend.body.text = <<"max concurrent", "instance count">>
  /\ IsResponse(429)

C7_WitnessOther ==
  /\ DiscoveryAnswered
  /\ ~BackendSaysJson
  /\ backend.body.text = <<"instance count", "max concurrent", "max concurrent">>
  /\ IsResponse(500)

\* ------------------------------------------------------------------ C8

ProxyAnswered ==
  /\ pc = "done"
  /\ PresentsIdentity(req)
  /\ req.upgrade # "websocket"
  /\ BackendAnswered

\* where 127.0.0.1:3000 starts in the container's body
Occurrences ==
  {i \in 1..(Len(backend.body.text) - 1) :
     backend.body.text[i] = "127.0.0.1" /\ backend.body.text[i + 1] = ":3000"}

\* how far the text after position i has moved by the replacements before it
Shift(i) == Cardinality({j \in Occurrences : j < i}) * (Len(req.host) - 2)

\* C8: the proxied response of a non-upgrade request with a session identity
\* has no content-length header, the container's status code and each other
\* header of the container unchanged; its body is the container's body with
\* every 127.0.0.1:3000 replaced by the request's host and every other token
\* in place.
C8_ProxyFrame ==
  ProxyAnswered =>
    /\ result.kind = "response"
    /\ result.status = backend.status
    /\ "content-length" \notin DOMAIN result.headers
    /\ \A n \in DOMAIN backend.headers \ {"content-length"} :
         n \in DOMAIN result.headers /\ result.headers[n] = backend.headers[n]
    /\ HasText
    /\ Len(result.body.text)
         = Len(backend.body.text) + Cardinality(Occurrences) * (Len(req.host) - 2)
    /\ \A i \in 1..Len(backend.body.text) :
         IF i \in Occurrences
         THEN SubSeq(result.body.text, i + Shift(i), i + Shift(i) + Len(req.host) - 1)
                = req.host
         ELSE (i - 1) \notin Occurrences =>
                result.body.text[i + Shift(i)] = backend.body.text[i]

\* Scenario D, with two occurrences and a content-length header to drop
C8_Witness ==
  /\ ProxyAnswered
  /\ backend.body.text = <<"127.0.0.1", ":3000", "127.0.0.1", ":3000">>
  /\ "content-length" \in DOMAIN backend.headers
  /\ req.host = <<"proxy.example">>
  /\ result.body.text = <<"proxy.example", "proxy.example">>

C8_WitnessHeaders ==
  /\ ProxyAnswered
  /\ backend.status = 401
  /\ DOMAIN backend.headers = {"content-type", "content-length"}
  /\ req.host = <<"localhost", ":8787">>

\* ------------------------------------------------------------------ C9

\* C9 as stated: a request with a session identity always gets a response
\* from handle(): when the container lookup, containerFetch or fetch throws,
\* the response is a 500 with a message.
C9_ForwardFailureIs500 ==
  (pc = "done" /\ PresentsIdentity(req)) =>
    /\ result.kind = "response"
    /\ ~BackendAnswered => IsResponse(500) /\ HasText

\* ------------------------------------------------------------------ C10

\* C10: a request with a session identity goes to exactly one forwarder:
\* container.fetch (the WebSocket bridge) when its Upgrade header is
\* "websocket", container.containerFetch with rewrite (the proxy) otherwise;
\* on no path does it enter the discovery handler or get the router's 400.
\* Only a throwing container lookup keeps it from reaching its forwarder.
C10_Dispatch ==
  (pc # "idle" /\ PresentsIdentity(req)) =>
    /\ pc \in {"handle", "dispatch", "upgradeAwait", "proxyAwait", "done"}
    /\ Len(fwdCalls) <= 1
    /\ \A i \in 1..Len(fwdCalls) :
         /\ fwdCalls[i].op = "fetch" <=> req.upgrade = "websocket"
         /\ fwdCalls[i].op = "containerFetch" <=> req.upgrade # "websocket"
    /\ pc = "upgradeAwait" => req.upgrade = "websocket"
    /\ pc = "proxyAwait" => req.upgrade # "websocket"
    /\ pc = "done" =>
         /\ fwdCalls = <<>> => (result.kind = "rejected" /\ backend = NoBackend)
         /\ BackendAnswered =>
              /\ result.kind = "response"
              /\ IF req.upgrade = "websocket"
                 THEN /\ "raw" \in DOMAIN result.body
                      /\ result.body.raw = backend.body
                      /\ result.headers = backend.headers
                 ELSE HasText
    /\ sessionId \in {NULL, ResolvedIdentity(req)}
    /\ ~IsResponse(400)

C10_Witness ==
  /\ pc = "done"
  /\ PresentsIdentity(req)
  /\ req.pathname = "/json/version/"
  /\ req.upgrade = "WebSocket"
  /\ Len(fwdCalls) = 1
  /\ fwdCalls[1].op = "containerFetch"
  /\ IsResponse(200)

C10_WitnessUpgrade ==
  /\ pc = "done"
  /\ req.xSessionId = ""
  /\ req.sessionIdParam = "u1"
  /\ req.upgrade = "websocket"
  /\ Len(fwdCalls) = 1
  /\ fwdCalls[1].op = "fetch"
  /\ IsResponse(101)

\* ------------------------------------------------------------------ C11

\* the handler went into handleJsonVersionRequest and has settled
DiscoveryHandled ==
  /\ pc = "done"
  /\ ~PresentsIdentity(req)
  /\ OnDiscoveryPath(req)
  /\ sessionId \in {"u1", "u2"}

\* the container lookup, the forward or the reading of the answer failed
DiscoveryFailed ==
  \/ backend = NoBackend
  \/ backend.kind = "throw"
  \/ (BackendAnswered /\ BackendSaysJson /\ ~backend.body.json.ok)
  \/ (BackendAnswered /\ BackendSaysJson /\ backend.body.json.ok
        /\ backend.body.json.data.webSocketDebuggerUrl.kind = "invalid")

\* C11: in the discovery handler every error thrown while the container is
\* looked up under the minted identity, while the request is forwarded, or
\* while the answer is read, parsed and rewritten (an unparsable
\* webSocketDebuggerUrl included) ends in a 500 response with a message;
\* handle() does not reject, and the container is called at most once.
C11_DiscoveryErrorsAre500 ==
  DiscoveryHandled =>
    /\ result.kind = "response"
    /\ DiscoveryFailed => (IsResponse(500) /\ HasText)
    /\ Len(fwdCalls) <= 1

\* what the try block of lines 190-236 does give: once containerFetch was
\* called, a throw of it, an unparsable body and an unparsable
\* webSocketDebuggerUrl all end in a 500 text response, after one call
C11_ForwardErrorsCaught ==
  (DiscoveryHandled /\ fwdCalls # <<>>) =>
    /\ result.kind = "response"
    /\ DiscoveryFailed =>
         /\ IsResponse(500)
         /\ HasText
         /\ result.body.text[1] = "Failed to initialize browser container: "
    /\ Len(fwdCalls) = 1
    /\ Len(provCalls) = 1

C11_WitnessInvalidUrl ==
  /\ DiscoveryHandled
  /\ BackendAnswered
  /\ backend.body.json.ok
  /\ backend.body.json.data.webSocketDebuggerUrl.kind = "invalid"
  /\ IsResponse(500)

\* ------------------------------------------------------------------ C12

\* what checkAuthentication decides, read off the deployment and the request
PassesAuthGate == env.DEV = "true" \/ KeyMatches

NothingProvisioned ==
  /\ sessionId = NULL
  /\ provCalls = <<>>
  /\ fwdCalls = <<>>
  /\ backend = NoBackend

\* C12: authentication comes before session creation.  A discovery request
\* that fails authentication is answered 401 with no identity minted, no
\* container looked up and nothing forwarded; the 401 and the 400 that
\* handle() itself gives are reached with no container lookup or call at
\* all; and a container is looked up under a minted identity only for a
\* request that passed authentication.
C12_AuthBeforeSession ==
  (pc # "idle" /\ ~PresentsIdentity(req)) =>
    /\ (OnDiscoveryPath(req) /\ ~PassesAuthGate) =>
         /\ pc \in {"handle", "done"}
         /\ NothingProvisioned
         /\ pc = "done" => IsResponse(401)
    /\ (IsResponse(401) \/ IsResponse(400)) => NothingProvisioned
    /\ (pc \in {"mint", "discoveryFetch", "discoveryAwait"}
          \/ sessionId # NULL \/ provCalls # <<>> \/ fwdCalls # <<>>) =>
         /\ OnDiscoveryPath(req)
         /\ PassesAuthGate
    /\ provCalls # <<>> => (sessionId \in {"u1", "u2"} /\ provCalls = <<sessionId>>)
    /\ \A i \in 1..Len(fwdCalls) : fwdCalls[i].key = sessionId

\* once this handler has answered 401 or 400 nothing of it is provisioned
\* later either: the next step drops the handler
C12_NoCallAfterRejection ==
  [][(pc = "done" /\ ~PresentsIdentity(req) /\ (IsResponse(401) \/ IsResponse(400)))
       => (pc' = "idle" /\ provCalls' = <<>> /\ fwdCalls' = <<>>)]_vars

C12_Witness ==
  /\ pc = "done"
  /\ ~PresentsIdentity(req)
  /\ req.pathname = "/json/version/"
  /\ env.DEV = "false"
  /\ env.API_KEY = NULL
  /\ req.apiKeyParam = "secret"
  /\ IsResponse(401)
  /\ NothingProvisioned

C12_WitnessProvisioned ==
  /\ pc = "discoveryAwait"
  /\ env.DEV = NULL
  /\ env.API_KEY = "secret"
  /\ req.apiKeyParam = "secret"
  /\ provCalls = <<"u2">>
  /\ Len(fwdCalls) = 1

====
